---- MODULE Spec2Model ----
(***************************************************************************)
(* A model of pebbe/dbxml: the Go binding (dbxml.go) of Berkeley DB XML    *)
(* and its C shim (c_dbxml.cc).                                            *)
(*                                                                         *)
(* One Connection (Db) is modelled, with the Docs iterators it hands out   *)
(* and the callers (goroutines, finalizers included) that use them.  Every *)
(* method is a lock step (sync.Mutex.Lock) followed by its body, which     *)
(* ends with the deferred Unlock and the return; Db.Close is cut at every  *)
(* access of db.docss and at the iterator lock it waits for.               *)
(***************************************************************************)
EXTENDS Integers, Sequences, FiniteSets, TLC

\* ------------------------------------------------------------------ bounds

\* How many callers use the Connection at once (Spec).
NCallers == 2
\* How many Docs values All() and Query() allocate in one run.
MaxDocs == 2
\* How many documents the source container of a Merge holds at most.
MaxSrc == 2

\* ---------------------------------------------------------------- universes

\* Document names of the concurrent runs and of the sequential runs.
Names1 == {"a"}
Names2 == {"a", "b", "c"}
\* Document bodies a caller passes: two well-formed ones and a malformed one.
Data == {"<x/>", "<y/>", "<x"}
WellFormed(d) == d \in {"<x/>", "<y/>"}
\* No document under a name; no file under a path.
Absent == ""

VARIABLES
    handle,     \* c_dbxml_t: the native container handle of db.db
    container,  \* the XmlContainer's documents: name -> body, Absent if none
    db,         \* the Db struct
    docs,       \* the Docs structs, in allocation order
    nDocs,      \* how many Docs structs were allocated (&Docs{})
    cursor,     \* c_dbxml_docs_t: the native cursor of docs[i].docs
    pc,         \* each caller's position
    last,       \* the call that returned in the last step, if one did
    closeReturned, \* a Db.Close() that found the Connection open has returned
    crashed     \* the process died: panic, fatal error or uncaught C++ exception

vars == <<handle, container, db, docs, nDocs, cursor, pc, last, closeReturned, crashed>>

\* ------------------------------------------------------------------ values

errclosed == "Database is closed"
\* xe.what() of a DbXml::XmlException.
XmlException == "XmlException"
AliasError == "Unable to add alias \"c_dbxml\""

Idle == [op |-> "", at |-> "", it |-> 0, id |-> 0]

\* A call that returned: the method, its arguments (it: the Docs it was called
\* on or returned; input: what the source container of a Merge held), its
\* results (ok: true, or a nil error), the native functions it called, the
\* passes an Open made, and the container as it was before a write.
NoCall == [op |-> "", it |-> 0, name |-> "", data |-> "", repl |-> FALSE, input |-> <<>>,
           ok |-> TRUE, str |-> "", n |-> 0, native |-> {}, attempts |-> <<>>,
           before |-> <<>>]

\* The zero value &Docs{}.
ZeroDocs == [db |-> FALSE, id |-> 0, started |-> FALSE, opened |-> FALSE,
             docs |-> 0, lock |-> 0]

\* No c_dbxml_docs_t allocated.
NoCursor == [alive |-> "none", frees |-> 0, more |-> FALSE, it |-> <<>>,
             doc |-> "", name |-> "", content |-> ""]

NoHandle == [alive |-> "none", frees |-> 0, error |-> FALSE, errstring |-> "",
             readOnly |-> FALSE]

Callers == DOMAIN pc
Names == DOMAIN container
Slots == 1..MaxDocs

\* All orders of a set of names.
Perms(S) == {s \in [1..Cardinality(S) -> S] : \A i, j \in DOMAIN s : s[i] = s[j] => i = j}

Present(c) == {n \in DOMAIN c : c[n] # Absent}

\* ------------------------------------------------------------------- Init

InitWith(callers, names) ==
    /\ handle = NoHandle
    /\ container = [n \in names |-> Absent]
    /\ db = [made |-> FALSE, opened |-> FALSE, next |-> 0, docss |-> [x \in {} |-> 0], lock |-> 0]
    /\ docs = [i \in Slots |-> ZeroDocs]
    /\ nDocs = 0
    /\ cursor = [i \in Slots |-> NoCursor]
    /\ pc = [t \in callers |-> Idle]
    /\ last = NoCall
    /\ closeReturned = FALSE
    /\ crashed = FALSE

Init == InitWith(1..NCallers, Names1)

InitStore == InitWith({1}, Names2)

\* ------------------------------------------------- native layer: c_dbxml.cc

\* c_dbxml_open without setReadOnly(true) on the second pass.
OpenModeNoReadOnly(i, exists) ==
    IF exists THEN "openReadWrite" ELSE "create"

\* One pass of the loop of c_dbxml_open: what the XmlManager is asked to do.
\* setReadOnly(true) is in force on the second pass, and the configuration is
\* only passed to openContainer.
OpenMode(i, exists) ==
    IF exists THEN (IF i = 1 THEN "openReadOnly" ELSE "openReadWrite") ELSE "create"

\* The error state one pass leaves: out is what the library did ("ok", "throw"
\* for an XmlException, "noalias" for addAlias returning false).
PassError(out) ==
    IF out = "ok" THEN [error |-> FALSE, errstring |-> ""]
    ELSE IF out = "noalias" THEN [error |-> TRUE, errstring |-> AliasError]
    ELSE [error |-> TRUE, errstring |-> XmlException]

\* The passes c_dbxml_open makes, each with what the library did: the second
\* only when the first left an error.
OpenAttempts(exists0, out0, exists1, out1) ==
    IF PassError(out0).error
    THEN <<[mode |-> OpenMode(0, exists0), out |-> out0],
           [mode |-> OpenMode(1, exists1), out |-> out1]>>
    ELSE <<[mode |-> OpenMode(0, exists0), out |-> out0]>>

c_dbxml_open(exists0, out0, exists1, out1) ==
    LET e0 == PassError(out0)
        e1 == PassError(out1)
    IN  IF ~e0.error
        THEN [alive |-> "live", frees |-> 0, error |-> FALSE, errstring |-> "",
              readOnly |-> FALSE]
        ELSE [alive |-> "live", frees |-> 0, error |-> e1.error,
              errstring |-> e1.errstring,
              readOnly |-> (~e1.error /\ exists1)]

\* delete db: nothing of the struct is left but that it was freed.
c_dbxml_free(h) == [NoHandle EXCEPT !.alive = "freed", !.frees = h.frees + 1]

\* XmlContainer::deleteDocument throws when there is no such document or the
\* container is read-only.
DeleteThrows(c, h, name) == h.readOnly \/ c[name] = Absent
deleteDocument(c, h, name) ==
    IF DeleteThrows(c, h, name) THEN c ELSE [c EXCEPT ![name] = Absent]

\* XmlContainer::putDocument throws when the name is taken, the body is not
\* well-formed or the container is read-only.
PutThrows(c, h, name, data) == h.readOnly \/ c[name] # Absent \/ ~WellFormed(data)
putDocument(c, h, name, data) ==
    IF PutThrows(c, h, name, data) THEN c ELSE [c EXCEPT ![name] = data]

Failed(h) == [h EXCEPT !.error = TRUE, !.errstring = XmlException]
Cleared(h) == [h EXCEPT !.error = FALSE, !.errstring = ""]

\* c_dbxml_put_xml that deletes the document whatever replace is.
c_dbxml_put_xml_deletes(c, h, name, data, replace) ==
    LET c1 == deleteDocument(c, h, name)
    IN  IF PutThrows(c1, h, name, data)
        THEN [c |-> c1, h |-> Failed(h), ret |-> 0]
        ELSE [c |-> putDocument(c1, h, name, data), h |-> Cleared(h), ret |-> 1]

\* c_dbxml_put_xml without the return 0 of its catch block.
c_dbxml_put_xml_returns_1(c, h, name, data, replace) ==
    LET c1 == IF replace THEN deleteDocument(c, h, name) ELSE c
    IN  IF PutThrows(c1, h, name, data)
        THEN [c |-> c1, h |-> Failed(h), ret |-> 1]
        ELSE [c |-> putDocument(c1, h, name, data), h |-> Cleared(h), ret |-> 1]

c_dbxml_put_xml(c, h, name, data, replace) ==
    LET c1 == IF replace THEN deleteDocument(c, h, name) ELSE c
    IN  IF PutThrows(c1, h, name, data)
        THEN [c |-> c1, h |-> Failed(h), ret |-> 0]
        ELSE [c |-> putDocument(c1, h, name, data), h |-> Cleared(h), ret |-> 1]

\* file is the body of the file at filename, Absent when it cannot be read.
c_dbxml_put_file(c, h, filename, file, replace) ==
    LET c1 == IF replace THEN deleteDocument(c, h, filename) ELSE c
    IN  IF file = Absent \/ PutThrows(c1, h, filename, file)
        THEN [c |-> c1, h |-> Failed(h), ret |-> 0]
        ELSE [c |-> putDocument(c1, h, filename, file), h |-> Cleared(h), ret |-> 1]

\* The loop of c_dbxml_merge going on to the next document after a failed
\* insertion, and reporting the failure at the end.
RECURSIVE MergeLoopContinues(_, _, _, _)
MergeLoopContinues(c, h, input, replace) ==
    IF input = <<>> THEN [c |-> c, h |-> h, ret |-> IF h.error THEN 0 ELSE 1]
    ELSE LET doc == Head(input)
             c1 == IF replace THEN deleteDocument(c, h, doc.name) ELSE c
         IN  IF PutThrows(c1, h, doc.name, doc.data)
             THEN MergeLoopContinues(c1, Failed(h), Tail(input), replace)
             ELSE MergeLoopContinues(putDocument(c1, h, doc.name, doc.data), h,
                                     Tail(input), replace)

\* The while loop of c_dbxml_merge over the documents input still holds.
RECURSIVE MergeLoop(_, _, _, _)
MergeLoop(c, h, input, replace) ==
    IF input = <<>> THEN [c |-> c, h |-> h, ret |-> 1]
    ELSE LET doc == Head(input)
             c1 == IF replace THEN deleteDocument(c, h, doc.name) ELSE c
         IN  IF PutThrows(c1, h, doc.name, doc.data)
             THEN [c |-> c1, h |-> Failed(h), ret |-> 0]
             ELSE MergeLoop(putDocument(c1, h, doc.name, doc.data), h, Tail(input), replace)

c_dbxml_merge(c, h, input, replace) == MergeLoop(c, Cleared(h), input, replace)

c_dbxml_remove(c, h, filename) ==
    IF DeleteThrows(c, h, filename)
    THEN [c |-> c, h |-> Failed(h), ret |-> 0]
    ELSE [c |-> deleteDocument(c, h, filename), h |-> Cleared(h), ret |-> 1]

\* ret is the C string returned: the body, or the error text.
c_dbxml_get(c, h, name) ==
    IF c[name] = Absent
    THEN [c |-> c, h |-> Failed(h), ret |-> XmlException]
    ELSE [c |-> c, h |-> Cleared(h), ret |-> c[name]]

c_dbxml_size(c) == Cardinality(Present(c))

\* it: the results still to come.
c_dbxml_get_all(order) ==
    [alive |-> "live", frees |-> 0, more |-> TRUE, it |-> order,
     doc |-> "", name |-> "", content |-> ""]

\* failed: createQueryContext or query threw.
c_dbxml_get_query(order, failed) ==
    [alive |-> "live", frees |-> 0, more |-> ~failed,
     it |-> IF failed THEN <<>> ELSE order,
     doc |-> "", name |-> "", content |-> ""]

c_dbxml_docs_next(k) ==
    IF k.more
    THEN IF k.it = <<>>
         THEN [k EXCEPT !.more = FALSE, !.name = "", !.content = ""]
         ELSE [k EXCEPT !.doc = Head(k.it), !.it = Tail(k.it), !.name = "", !.content = ""]
    ELSE k

c_dbxml_docs_name(k) ==
    IF k.more /\ k.name = "" THEN [k EXCEPT !.name = k.doc] ELSE k

c_dbxml_docs_content(k, c) ==
    IF k.more /\ k.content = "" THEN [k EXCEPT !.content = c[k.doc]] ELSE k

\* delete docs: nothing of the struct is left but that it was freed.
c_dbxml_docs_free(k) == [NoCursor EXCEPT !.alive = "freed", !.frees = k.frees + 1]

\* The documents a source container of Merge can hold, in cursor order.
Sources ==
    UNION {{[i \in 1..Cardinality(S) |-> [name |-> p[i], data |-> f[p[i]]]] :
                p \in Perms(S), f \in [S -> {d \in Data : WellFormed(d)}]} :
           S \in {T \in SUBSET Names : Cardinality(T) <= MaxSrc}}

\* ------------------------------------------------------------ Go: helpers

EmptyMap == [x \in {} |-> 0]
MapDelete(m, k) == [x \in DOMAIN m \ {k} |-> m[x]]
MapPut(m, k, v) == [x \in DOMAIN m \cup {k} |-> IF x = k THEN v ELSE m[x]]

At(t, op, at) == pc[t].op = op /\ pc[t].at = at

Call(op) == [NoCall EXCEPT !.op = op]

\* The deferred db.lock.Unlock() and the return.
Return(t, call) ==
    /\ pc' = [pc EXCEPT ![t] = Idle]
    /\ last' = call

\* The process dies in this step.
Crash == crashed' = TRUE /\ last' = NoCall

GoError(h) == h.errstring

\* ------------------------------------------------------- Go: Open and Close

Outcomes == {"ok", "throw", "noalias"}

\* func Open.  The Connection is created once; exists0 and exists1 say whether
\* the container is on disk at each pass of c_dbxml_open (it is at the second
\* if the first opened or created it and only addAlias failed), stored what it
\* holds.
Open(t) ==
    /\ ~crashed /\ ~db.made /\ pc[t] = Idle
    /\ \E exists0 \in BOOLEAN, exists1 \in BOOLEAN, out0 \in Outcomes, out1 \in Outcomes,
          stored \in [Names -> {d \in Data : WellFormed(d)} \cup {Absent}] :
        LET h == c_dbxml_open(exists0, out0, exists1, out1)
            attempts == OpenAttempts(exists0, out0, exists1, out1)
            created == \E j \in 1..Len(attempts) :
                            attempts[j].mode = "create" /\ attempts[j].out # "throw"
            call == [Call("Open") EXCEPT !.attempts = attempts]
        IN  /\ (exists0 \/ out0 = "noalias") => exists1
            /\ created => stored = [n \in Names |-> Absent]
            /\ IF h.error
               THEN /\ handle' = c_dbxml_free(h)
                    /\ db' = [db EXCEPT !.made = TRUE]
                    /\ UNCHANGED container
                    /\ Return(t, [call EXCEPT !.ok = FALSE, !.str = GoError(h),
                           !.native = {"c_dbxml_open", "c_dbxml_error",
                                       "c_dbxml_errstring", "c_dbxml_free"}])
               ELSE /\ handle' = h
                    /\ container' = stored
                    /\ db' = [db EXCEPT !.made = TRUE, !.docss = EmptyMap, !.opened = TRUE]
                    /\ Return(t, [call EXCEPT
                           !.native = {"c_dbxml_open", "c_dbxml_error"}])
    /\ UNCHANGED <<docs, nDocs, cursor, closeReturned, crashed>>

DbOps == {"Close", "PutFile", "PutXml", "Merge", "Remove", "Get", "Size", "All", "Query"}

StoreOps == {"Close", "PutFile", "PutXml", "Merge", "Remove", "Get", "Size"}

\* db.lock.Lock() that does not wait for the lock to be free.
LockDbNoWait(t, ops) ==
    /\ ~crashed /\ db.made /\ pc[t] = Idle
    /\ \E op \in ops :
        /\ op \in {"All", "Query"} => nDocs < MaxDocs
        /\ pc' = [pc EXCEPT ![t] = [Idle EXCEPT !.op = op, !.at = "body"]]
    /\ db' = [db EXCEPT !.lock = t]
    /\ last' = NoCall
    /\ UNCHANGED <<handle, container, docs, nDocs, cursor, closeReturned, crashed>>

\* db.lock.Lock() at the head of a method of Db, one of ops.  All and Query
\* allocate their &Docs{} here.
LockDb(t, ops) ==
    /\ ~crashed /\ db.made /\ pc[t] = Idle /\ db.lock = 0
    /\ \E op \in ops :
        /\ op \in {"All", "Query"} => nDocs < MaxDocs
        /\ pc' = [pc EXCEPT ![t] = [Idle EXCEPT !.op = op, !.at = "body"]]
    /\ db' = [db EXCEPT !.lock = t]
    /\ last' = NoCall
    /\ UNCHANGED <<handle, container, docs, nDocs, cursor, closeReturned, crashed>>

DbLock(t) == LockDb(t, DbOps)

\* The same of a caller that uses no iterator.
DbLockStore(t) == LockDb(t, StoreOps)

Unlocked(d) == [d EXCEPT !.lock = 0]

\* A method of Db that found !db.opened.
Errclosed(t, call) ==
    /\ db' = Unlocked(db)
    /\ Return(t, [call EXCEPT !.ok = FALSE, !.str = errclosed])
    /\ UNCHANGED <<handle, container>>

\* What a write method returns after its native call.
Written(t, call, r, fn) ==
    /\ container' = r.c
    /\ handle' = r.h
    /\ db' = Unlocked(db)
    /\ IF r.ret = 0
       THEN Return(t, [call EXCEPT !.ok = FALSE, !.str = GoError(r.h),
                                   !.native = {fn, "c_dbxml_errstring"}])
       ELSE Return(t, [call EXCEPT !.native = {fn}])

\* func (db *Db) PutFile
PutFile(t) ==
    /\ ~crashed /\ At(t, "PutFile", "body")
    /\ \E filename \in Names, file \in Data \cup {Absent}, replace \in BOOLEAN :
        LET call == [Call("PutFile") EXCEPT !.name = filename, !.data = file,
                                            !.repl = replace, !.before = container]
        IN  IF ~db.opened THEN Errclosed(t, call)
            ELSE Written(t, call,
                         c_dbxml_put_file(container, handle, filename, file, replace),
                         "c_dbxml_put_file")
    /\ UNCHANGED <<docs, nDocs, cursor, closeReturned, crashed>>

\* PutXml without the test of db.opened.
PutXmlUnchecked(t) ==
    /\ ~crashed /\ At(t, "PutXml", "body")
    /\ \E name \in Names, data \in Data, replace \in BOOLEAN :
        Written(t, [Call("PutXml") EXCEPT !.name = name, !.data = data,
                                          !.repl = replace, !.before = container],
                c_dbxml_put_xml(container, handle, name, data, replace),
                "c_dbxml_put_xml")
    /\ UNCHANGED <<docs, nDocs, cursor, closeReturned, crashed>>

\* func (db *Db) PutXml
PutXml(t) ==
    /\ ~crashed /\ At(t, "PutXml", "body")
    /\ \E name \in Names, data \in Data, replace \in BOOLEAN :
        LET call == [Call("PutXml") EXCEPT !.name = name, !.data = data,
                                           !.repl = replace, !.before = container]
        IN  IF ~db.opened THEN Errclosed(t, call)
            ELSE Written(t, call,
                         c_dbxml_put_xml(container, handle, name, data, replace),
                         "c_dbxml_put_xml")
    /\ UNCHANGED <<docs, nDocs, cursor, closeReturned, crashed>>

\* func (db *Db) Merge.  input is what the container at filename holds;
\* openable is false when openContainer throws, which nothing catches.
Merge(t) ==
    /\ ~crashed /\ At(t, "Merge", "body")
    /\ \E input \in Sources, replace \in BOOLEAN, openable \in BOOLEAN :
        LET call == [Call("Merge") EXCEPT !.input = input, !.repl = replace,
                                          !.before = container]
        IN  IF ~db.opened
            THEN Errclosed(t, call) /\ UNCHANGED crashed
            ELSE IF ~openable
            THEN Crash /\ UNCHANGED <<handle, container, db, pc>>
            ELSE /\ Written(t, call, c_dbxml_merge(container, handle, input, replace),
                            "c_dbxml_merge")
                 /\ UNCHANGED crashed
    /\ UNCHANGED <<docs, nDocs, cursor, closeReturned>>

\* func (db *Db) Remove
Remove(t) ==
    /\ ~crashed /\ At(t, "Remove", "body")
    /\ \E name \in Names :
        LET call == [Call("Remove") EXCEPT !.name = name, !.before = container]
        IN  IF ~db.opened THEN Errclosed(t, call)
            ELSE Written(t, call, c_dbxml_remove(container, handle, name),
                         "c_dbxml_remove")
    /\ UNCHANGED <<docs, nDocs, cursor, closeReturned, crashed>>

\* func (db *Db) Get
Get(t) ==
    /\ ~crashed /\ At(t, "Get", "body")
    /\ \E name \in Names :
        LET call == [Call("Get") EXCEPT !.name = name]
            r == c_dbxml_get(container, handle, name)
        IN  IF ~db.opened THEN Errclosed(t, call)
            ELSE /\ handle' = r.h
                 /\ db' = Unlocked(db)
                 /\ UNCHANGED container
                 /\ IF r.h.error
                    THEN Return(t, [call EXCEPT !.ok = FALSE, !.str = r.ret,
                                    !.native = {"c_dbxml_get", "c_dbxml_error"}])
                    ELSE Return(t, [call EXCEPT !.data = r.ret,
                                    !.native = {"c_dbxml_get", "c_dbxml_error"}])
    /\ UNCHANGED <<docs, nDocs, cursor, closeReturned, crashed>>

\* func (db *Db) Size.  getNumDocuments may throw, which nothing catches.
Size(t) ==
    /\ ~crashed /\ At(t, "Size", "body")
    /\ \E throws \in BOOLEAN :
        IF ~db.opened
        THEN Errclosed(t, Call("Size")) /\ UNCHANGED crashed
        ELSE IF throws
        THEN Crash /\ UNCHANGED <<handle, container, db, pc>>
        ELSE /\ db' = Unlocked(db)
             /\ Return(t, [Call("Size") EXCEPT !.n = c_dbxml_size(container),
                                                  !.native = {"c_dbxml_size"}])
             /\ UNCHANGED <<handle, container, crashed>>
    /\ UNCHANGED <<docs, nDocs, cursor, closeReturned>>

\* ------------------------------------------------------- Go: All and Query

\* The lines All and Query share once the cursor k is made: the Docs is
\* given the next id, put in db.docss and opened.
Registered(t, call, k, fn) ==
    LET i == nDocs + 1
    IN  /\ nDocs' = i
        /\ cursor' = [cursor EXCEPT ![i] = k]
        /\ docs' = [docs EXCEPT ![i] = [db |-> TRUE, id |-> db.next, started |-> FALSE,
                                        opened |-> TRUE, docs |-> i, lock |-> 0]]
        /\ db' = [db EXCEPT !.next = @ + 1, !.docss = MapPut(@, db.next, i), !.lock = 0]
        /\ handle' = Cleared(handle)
        /\ Return(t, [call EXCEPT !.it = i, !.native = fn])

\* func (db *Db) All.  getAllDocuments may throw, which nothing catches.
All(t) ==
    /\ ~crashed /\ At(t, "All", "body")
    /\ \E order \in Perms(Present(container)), throws \in BOOLEAN :
        IF ~db.opened
        THEN /\ nDocs' = nDocs + 1
             /\ Errclosed(t, [Call("All") EXCEPT !.it = nDocs + 1])
             /\ UNCHANGED <<docs, cursor, crashed>>
        ELSE IF throws
        THEN Crash /\ UNCHANGED <<handle, db, docs, nDocs, cursor, pc>>
        ELSE /\ Registered(t, Call("All"), c_dbxml_get_all(order), {"c_dbxml_get_all"})
             /\ UNCHANGED crashed
    /\ UNCHANGED <<container, closeReturned>>

\* Query without the test of c_dbxml_error: the Docs of a failed query is
\* registered and opened all the same.
QueryIgnoresError(t) ==
    /\ ~crashed /\ At(t, "Query", "body")
    /\ \E sel \in SUBSET Present(container), failed \in BOOLEAN :
       \E order \in Perms(sel) :
        LET i == nDocs + 1
            call == [Call("Query") EXCEPT !.it = i]
            k == c_dbxml_get_query(order, failed)
        IN  IF ~db.opened
            THEN /\ nDocs' = i
                 /\ Errclosed(t, call)
                 /\ UNCHANGED <<docs, cursor>>
            ELSE Registered(t, [call EXCEPT !.ok = k.more,
                                            !.str = IF k.more THEN "" ELSE XmlException],
                            k, {"c_dbxml_get_query", "c_dbxml_error"})
    /\ UNCHANGED <<container, closeReturned, crashed>>

\* func (db *Db) Query.  The documents the expression selects are some of
\* those stored; failed: the expression does not compile.
Query(t) ==
    /\ ~crashed /\ At(t, "Query", "body")
    /\ \E sel \in SUBSET Present(container), failed \in BOOLEAN :
       \E order \in Perms(sel) :
        LET i == nDocs + 1
            call == [Call("Query") EXCEPT !.it = i]
            k == c_dbxml_get_query(order, failed)
        IN  IF ~db.opened
            THEN /\ nDocs' = i
                 /\ Errclosed(t, call)
                 /\ UNCHANGED <<docs, cursor>>
            ELSE IF ~k.more
            THEN /\ nDocs' = i
                 /\ cursor' = [cursor EXCEPT ![i] = k]
                 /\ docs' = [docs EXCEPT ![i] = [ZeroDocs EXCEPT !.docs = i]]
                 /\ handle' = Failed(handle)
                 /\ db' = Unlocked(db)
                 /\ UNCHANGED container
                 /\ Return(t, [call EXCEPT !.ok = FALSE, !.str = XmlException,
                        !.native = {"c_dbxml_get_query", "c_dbxml_error",
                                    "c_dbxml_errstring"}])
            ELSE Registered(t, call, k, {"c_dbxml_get_query", "c_dbxml_error"})
    /\ UNCHANGED <<container, closeReturned, crashed>>

\* ----------------------------------------------------------- Go: Db.Close

\* close without the test of docs.opened: it frees the cursor again.
closeUnguarded(ds, ks, d, i) ==
    [docs |-> [ds EXCEPT ![i] = [@ EXCEPT !.opened = FALSE, !.db = FALSE]],
     cursor |-> [ks EXCEPT ![i] = c_dbxml_docs_free(@)],
     db |-> [d EXCEPT !.docss = MapDelete(@, ds[i].id)],
     native |-> {"c_dbxml_docs_free"}]

\* close that leaves the entry of the Docs in db.docss.
closeKeepsEntry(ds, ks, d, i) ==
    IF ds[i].opened
    THEN [docs |-> [ds EXCEPT ![i] = [@ EXCEPT !.opened = FALSE, !.db = FALSE]],
          cursor |-> [ks EXCEPT ![i] = c_dbxml_docs_free(@)],
          db |-> d,
          native |-> {"c_dbxml_docs_free"}]
    ELSE [docs |-> ds, cursor |-> ks, db |-> d, native |-> {}]

\* func (docs *Docs) close, on the Docs i of ds: the Docs structs, the cursors
\* and the Db after it.
close(ds, ks, d, i) ==
    IF ds[i].opened
    THEN [docs |-> [ds EXCEPT ![i] = [@ EXCEPT !.opened = FALSE, !.db = FALSE]],
          cursor |-> [ks EXCEPT ![i] = c_dbxml_docs_free(@)],
          db |-> [d EXCEPT !.docss = MapDelete(@, ds[i].id)],
          native |-> {"c_dbxml_docs_free"}]
    ELSE [docs |-> ds, cursor |-> ks, db |-> d, native |-> {}]

\* Db.Close without the loop over db.docss: the handle is freed at once.
DbCloseNoLoop(t) ==
    /\ ~crashed /\ At(t, "Close", "body")
    /\ IF db.opened
       THEN /\ pc' = [pc EXCEPT ![t] = [@ EXCEPT !.at = "free"]]
            /\ last' = NoCall
            /\ UNCHANGED db
       ELSE /\ db' = Unlocked(db)
            /\ Return(t, Call("Close"))
    /\ UNCHANGED <<handle, container, docs, nDocs, cursor, closeReturned, crashed>>

\* func (db *Db) Close, from the Lock to the head of the loop.
DbClose(t) ==
    /\ ~crashed /\ At(t, "Close", "body")
    /\ IF db.opened
       THEN /\ pc' = [pc EXCEPT ![t] = [@ EXCEPT !.at = "loop", !.id = 0]]
            /\ last' = NoCall
            /\ UNCHANGED db
       ELSE /\ db' = Unlocked(db)
            /\ Return(t, Call("Close"))
    /\ UNCHANGED <<handle, container, docs, nDocs, cursor, closeReturned, crashed>>

\* The loop of Db.Close stopping one id short of db.next.
DbCloseLoopStopsShort(t) ==
    /\ ~crashed /\ At(t, "Close", "loop")
    /\ pc' = [pc EXCEPT ![t] =
                IF pc[t].id < db.next - 1
                THEN IF pc[t].id \in DOMAIN db.docss
                     THEN [@ EXCEPT !.at = "lookup"]
                     ELSE [@ EXCEPT !.id = @ + 1]
                ELSE [@ EXCEPT !.at = "free"]]
    /\ last' = NoCall
    /\ UNCHANGED <<handle, container, db, docs, nDocs, cursor, closeReturned, crashed>>

\* for id < db.next: the test _, ok := db.docss[id]
DbCloseLoop(t) ==
    /\ ~crashed /\ At(t, "Close", "loop")
    /\ pc' = [pc EXCEPT ![t] =
                IF pc[t].id < db.next
                THEN IF pc[t].id \in DOMAIN db.docss
                     THEN [@ EXCEPT !.at = "lookup"]
                     ELSE [@ EXCEPT !.id = @ + 1]
                ELSE [@ EXCEPT !.at = "free"]]
    /\ last' = NoCall
    /\ UNCHANGED <<handle, container, db, docs, nDocs, cursor, closeReturned, crashed>>

\* db.docss[id].Close(): the second read of the map, and the call.  A key
\* that was deleted since the test reads as nil, and docs.lock.Lock() on a nil
\* *Docs panics.
DbCloseLookup(t) ==
    /\ ~crashed /\ At(t, "Close", "lookup")
    /\ IF pc[t].id \in DOMAIN db.docss
       THEN /\ pc' = [pc EXCEPT ![t] = [@ EXCEPT !.at = "docsLock",
                                                 !.it = db.docss[pc[t].id]]]
            /\ last' = NoCall
            /\ UNCHANGED crashed
       ELSE Crash /\ UNCHANGED pc
    /\ UNCHANGED <<handle, container, db, docs, nDocs, cursor, closeReturned>>

\* docs.lock.Lock() of the Docs.Close() that Db.Close calls.
DbCloseDocsLock(t) ==
    /\ ~crashed /\ At(t, "Close", "docsLock")
    /\ docs[pc[t].it].lock = 0
    /\ docs' = [docs EXCEPT ![pc[t].it].lock = t]
    /\ pc' = [pc EXCEPT ![t] = [@ EXCEPT !.at = "docsClose"]]
    /\ last' = NoCall
    /\ UNCHANGED <<handle, container, db, nDocs, cursor, closeReturned, crashed>>

\* docs.close() and the Unlock of that Docs.Close(), then id++.
DbCloseDocsClose(t) ==
    /\ ~crashed /\ At(t, "Close", "docsClose")
    /\ LET r == close(docs, cursor, db, pc[t].it)
       IN  /\ docs' = [r.docs EXCEPT ![pc[t].it].lock = 0]
           /\ cursor' = r.cursor
           /\ db' = r.db
    /\ pc' = [pc EXCEPT ![t] = [@ EXCEPT !.at = "loop", !.it = 0, !.id = @ + 1]]
    /\ last' = NoCall
    /\ UNCHANGED <<handle, container, nDocs, closeReturned, crashed>>

\* C.c_dbxml_free(db.db); db.opened = false; and the return.
DbCloseFree(t) ==
    /\ ~crashed /\ At(t, "Close", "free")
    /\ handle' = c_dbxml_free(handle)
    /\ db' = [db EXCEPT !.opened = FALSE, !.lock = 0]
    /\ closeReturned' = TRUE
    /\ Return(t, [Call("Close") EXCEPT !.native = {"c_dbxml_free"}])
    /\ UNCHANGED <<container, docs, nDocs, cursor, crashed>>

\* ------------------------------------------------------------- Go: Docs

DocsOps == {"Next", "Name", "Content", "DocsClose"}

\* A method of Docs that does not wait for docs.lock.
DocsLockNoWait(t) ==
    /\ ~crashed /\ pc[t] = Idle
    /\ \E i \in 1..nDocs, op \in DocsOps :
        /\ docs' = [docs EXCEPT ![i].lock = t]
        /\ pc' = [pc EXCEPT ![t] = [Idle EXCEPT !.op = op, !.at = "body", !.it = i]]
    /\ last' = NoCall
    /\ UNCHANGED <<handle, container, db, nDocs, cursor, closeReturned, crashed>>

\* docs.lock.Lock() at the head of a method of a Docs that All or Query
\* returned.
DocsLock(t) ==
    /\ ~crashed /\ pc[t] = Idle
    /\ \E i \in 1..nDocs, op \in DocsOps :
        /\ docs[i].lock = 0
        /\ docs' = [docs EXCEPT ![i].lock = t]
        /\ pc' = [pc EXCEPT ![t] = [Idle EXCEPT !.op = op, !.at = "body", !.it = i]]
    /\ last' = NoCall
    /\ UNCHANGED <<handle, container, db, nDocs, cursor, closeReturned, crashed>>

\* Next that returns false when the cursor does not advance, without close().
NextLeavesOpen(t) ==
    /\ ~crashed /\ At(t, "Next", "body")
    /\ LET i == pc[t].it
           call == [Call("Next") EXCEPT !.it = i]
           k == c_dbxml_docs_next(cursor[i])
       IN  IF ~docs[i].opened
           THEN /\ docs' = [docs EXCEPT ![i].lock = 0]
                /\ Return(t, [call EXCEPT !.ok = FALSE])
                /\ UNCHANGED cursor
           ELSE /\ docs' = [docs EXCEPT ![i].lock = 0, ![i].started = TRUE]
                /\ cursor' = [cursor EXCEPT ![i] = k]
                /\ Return(t, [call EXCEPT !.ok = k.more,
                                          !.native = {"c_dbxml_docs_next"}])
    /\ UNCHANGED <<handle, container, db, nDocs, closeReturned, crashed>>

\* func (docs *Docs) Next.  it.next may throw, which nothing catches.
Next(t) ==
    /\ ~crashed /\ At(t, "Next", "body")
    /\ LET i == pc[t].it
           call == [Call("Next") EXCEPT !.it = i]
           k == c_dbxml_docs_next(cursor[i])
       IN  \E throws \in BOOLEAN :
           IF ~docs[i].opened
           THEN /\ docs' = [docs EXCEPT ![i].lock = 0]
                /\ Return(t, [call EXCEPT !.ok = FALSE])
                /\ UNCHANGED <<cursor, db, crashed>>
           ELSE IF throws
           THEN Crash /\ UNCHANGED <<docs, cursor, db, pc>>
           ELSE IF ~k.more
           THEN LET r == close([docs EXCEPT ![i].started = TRUE],
                               [cursor EXCEPT ![i] = k], db, i)
                IN  /\ docs' = [r.docs EXCEPT ![i].lock = 0]
                    /\ cursor' = r.cursor
                    /\ db' = r.db
                    /\ Return(t, [call EXCEPT !.ok = FALSE,
                           !.native = {"c_dbxml_docs_next"} \cup r.native])
                    /\ UNCHANGED crashed
           ELSE /\ docs' = [docs EXCEPT ![i].lock = 0, ![i].started = TRUE]
                /\ cursor' = [cursor EXCEPT ![i] = k]
                /\ Return(t, [call EXCEPT !.native = {"c_dbxml_docs_next"}])
                /\ UNCHANGED <<db, crashed>>
    /\ UNCHANGED <<handle, container, nDocs, closeReturned>>

\* func (docs *Docs) Name.  getName may throw, which nothing catches.
Name(t) ==
    /\ ~crashed /\ At(t, "Name", "body")
    /\ LET i == pc[t].it
           call == [Call("Name") EXCEPT !.it = i]
           k == c_dbxml_docs_name(cursor[i])
       IN  \E throws \in BOOLEAN :
           IF ~(docs[i].opened /\ docs[i].started)
           THEN /\ docs' = [docs EXCEPT ![i].lock = 0]
                /\ Return(t, call)
                /\ UNCHANGED <<cursor, crashed>>
           ELSE IF throws
           THEN Crash /\ UNCHANGED <<docs, cursor, pc>>
           ELSE /\ docs' = [docs EXCEPT ![i].lock = 0]
                /\ cursor' = [cursor EXCEPT ![i] = k]
                /\ Return(t, [call EXCEPT !.str = k.name,
                                          !.native = {"c_dbxml_docs_name"}])
                /\ UNCHANGED crashed
    /\ UNCHANGED <<handle, container, db, nDocs, closeReturned>>

\* func (docs *Docs) Content.  getContent throws when the document is gone,
\* and may throw otherwise; nothing catches it.
Content(t) ==
    /\ ~crashed /\ At(t, "Content", "body")
    /\ LET i == pc[t].it
           call == [Call("Content") EXCEPT !.it = i]
           k == c_dbxml_docs_content(cursor[i], container)
       IN  \E throws \in BOOLEAN :
           IF ~(docs[i].opened /\ docs[i].started)
           THEN /\ docs' = [docs EXCEPT ![i].lock = 0]
                /\ Return(t, call)
                /\ UNCHANGED <<cursor, crashed>>
           ELSE IF throws \/ k.content = Absent
           THEN Crash /\ UNCHANGED <<docs, cursor, pc>>
           ELSE /\ docs' = [docs EXCEPT ![i].lock = 0]
                /\ cursor' = [cursor EXCEPT ![i] = k]
                /\ Return(t, [call EXCEPT !.str = k.content,
                                          !.native = {"c_dbxml_docs_content"}])
                /\ UNCHANGED crashed
    /\ UNCHANGED <<handle, container, db, nDocs, closeReturned>>

\* func (docs *Docs) Close
DocsClose(t) ==
    /\ ~crashed /\ At(t, "DocsClose", "body")
    /\ LET i == pc[t].it
           r == close(docs, cursor, db, i)
       IN  /\ docs' = [r.docs EXCEPT ![i].lock = 0]
           /\ cursor' = r.cursor
           /\ db' = r.db
           /\ Return(t, [Call("DocsClose") EXCEPT !.it = i, !.native = r.native])
    /\ UNCHANGED <<handle, container, nDocs, closeReturned, crashed>>

\* ------------------------------------------------- db.docss, unsynchronized

\* The access of db.docss that the next step of caller t makes: Docs.close
\* deletes holding only docs.lock; All, Query and Db.Close hold db.lock.
MapAccess(t) ==
    IF pc[t].op \in {"All", "Query"} /\ db.opened THEN "write"
    ELSE IF At(t, "Close", "loop") /\ pc[t].id < db.next THEN "read"
    ELSE IF At(t, "Close", "lookup") THEN "read"
    ELSE IF At(t, "Close", "docsClose") /\ docs[pc[t].it].opened THEN "write"
    ELSE IF pc[t].op = "DocsClose" /\ docs[pc[t].it].opened THEN "write"
    ELSE IF pc[t].op = "Next" /\ docs[pc[t].it].opened
            /\ ~c_dbxml_docs_next(cursor[pc[t].it]).more THEN "write"
    ELSE "none"

\* Two callers that hold no common lock are both about to access db.docss,
\* one of them writing.
MapRace ==
    \E t, u \in Callers :
        /\ t # u
        /\ MapAccess(t) = "write"
        /\ MapAccess(u) # "none"
        /\ ~(pc[t].op \in DbOps /\ pc[u].op \in DbOps)

\* The Go runtime detects the race and ends the process ("fatal error:
\* concurrent map writes", "concurrent map read and map write").
ConcurrentMapAccess ==
    /\ ~crashed /\ MapRace
    /\ Crash
    /\ UNCHANGED <<handle, container, db, docs, nDocs, cursor, pc, closeReturned>>

\* ------------------------------------------------------------ specification

NextStep ==
    \/ \E t \in Callers : Open(t)
    \/ \E t \in Callers : DbLock(t)
    \/ \E t \in Callers : PutFile(t)
    \/ \E t \in Callers : PutXml(t)
    \/ \E t \in Callers : Merge(t)
    \/ \E t \in Callers : Remove(t)
    \/ \E t \in Callers : Get(t)
    \/ \E t \in Callers : Size(t)
    \/ \E t \in Callers : All(t)
    \/ \E t \in Callers : Query(t)
    \/ \E t \in Callers : DbClose(t)
    \/ \E t \in Callers : DbCloseLoop(t)
    \/ \E t \in Callers : DbCloseLookup(t)
    \/ \E t \in Callers : DbCloseDocsLock(t)
    \/ \E t \in Callers : DbCloseDocsClose(t)
    \/ \E t \in Callers : DbCloseFree(t)
    \/ \E t \in Callers : DocsLock(t)
    \/ \E t \in Callers : Next(t)
    \/ \E t \in Callers : Name(t)
    \/ \E t \in Callers : Content(t)
    \/ \E t \in Callers : DocsClose(t)
    \/ ConcurrentMapAccess

\* A caller that opens, writes, reads and closes, and uses no iterator.
NextStore ==
    \/ \E t \in Callers : Open(t)
    \/ \E t \in Callers : DbLockStore(t)
    \/ \E t \in Callers : PutFile(t)
    \/ \E t \in Callers : PutXml(t)
    \/ \E t \in Callers : Merge(t)
    \/ \E t \in Callers : Remove(t)
    \/ \E t \in Callers : Get(t)
    \/ \E t \in Callers : Size(t)
    \/ \E t \in Callers : DbClose(t)
    \/ \E t \in Callers : DbCloseLoop(t)
    \/ \E t \in Callers : DbCloseFree(t)

\* Concurrent callers, one document name.
Spec == Init /\ [][NextStep]_vars

\* One caller, two document names.
SpecStore == InitStore /\ [][NextStore]_vars

\* ------------------------------------------- iterators under fair scheduling

\* db.lock.Lock() of a caller that makes iterators and closes the Connection.
DbLockLive(t) == LockDb(t, {"Close", "All", "Query"})

\* A step of caller t in which every native call returns: no exception of the
\* library goes uncaught.
NativeReturns(t) ==
    \/ All(t) /\ ~crashed'
    \/ Query(t)
    \/ Next(t) /\ ~crashed'
    \/ Name(t) /\ ~crashed'
    \/ Content(t) /\ ~crashed'
    \/ DocsClose(t)

\* A step of the Db.Close() of caller t that waits for no lock.
DbCloseStep(t) ==
    \/ DbClose(t)
    \/ DbCloseLoop(t)
    \/ DbCloseLookup(t)
    \/ DbCloseDocsClose(t)
    \/ DbCloseFree(t)

NextLive ==
    \/ \E t \in Callers : Open(t)
    \/ \E t \in Callers : DbLockLive(t)
    \/ \E t \in Callers : DocsLock(t)
    \/ \E t \in Callers : NativeReturns(t)
    \/ \E t \in Callers : DbCloseStep(t)
    \/ \E t \in Callers : DbCloseDocsLock(t)
    \/ ConcurrentMapAccess

\* The scheduler runs every goroutine that can run, and a goroutine that waits
\* for a sync.Mutex gets it once it is free often enough (starvation mode).
Fairness ==
    \A t \in 1..NCallers :
        /\ WF_vars(NativeReturns(t))
        /\ WF_vars(DbCloseStep(t))
        /\ SF_vars(DbCloseDocsLock(t))

\* Concurrent callers of the iterators and of Db.Close, scheduled fairly, the
\* native calls all returning.
SpecLive == Init /\ [][NextLive]_vars /\ Fairness

\* ------------------------------------------------------------------ claims

IterCalls == {"Next", "Name", "Content"}
Puts == {"PutXml", "PutFile"}
GuardedOps == {"PutFile", "PutXml", "Merge", "Remove", "Get", "Size", "All", "Query"}

\* What Db.Get returns for name when nothing fails but the lookup: the body,
\* or "" with an error.
GetResult(c, h, name) ==
    LET r == c_dbxml_get(c, h, name)
    IN  IF r.h.error THEN [content |-> "", err |-> r.ret] ELSE [content |-> r.ret, err |-> ""]

\* A Docs that is closed is never open again.
ClosedStaysClosed ==
    [][\A i \in 1..nDocs : ~docs[i].opened => ~docs'[i].opened]_vars

\* Next() on a closed Docs returns false and calls nothing native.
NextOnClosed ==
    [][(last'.op = "Next" /\ ~docs[last'.it].opened)
        => (~last'.ok /\ last'.native = {})]_vars

\* C1: once a Db.Close() that found the Connection open has returned, every
\* Next() that returns on any Docs returns false, every Name() and Content()
\* returns "", and none of them calls a native cursor function.
C1_AfterDbClose ==
    (closeReturned /\ last.op \in IterCalls)
        => /\ last.op = "Next" => ~last.ok
           /\ last.str = ""
           /\ last.native = {}

\* A Next() returned after Db.Close() on a Docs that All or Query had
\* registered and whose iteration had begun.
C1_Witness ==
    /\ closeReturned
    /\ last.op = "Next"
    /\ docs[last.it].started
    /\ cursor[last.it].alive = "freed"

\* C2: c_dbxml_free is called at most once on the container handle (the one a
\* failed Open freed included) and c_dbxml_docs_free at most once on a cursor;
\* a Close() on a Connection or Docs that is not open calls nothing native and
\* changes nothing but the lock it took and gives back.
C2_CloseIdempotent ==
    /\ [](handle.frees <= 1 /\ \A i \in Slots : cursor[i].frees <= 1)
    /\ [][(last'.op = "Close" /\ ~db.opened)
            => /\ last'.native = {}
               /\ db' = Unlocked(db)
               /\ UNCHANGED <<handle, container, docs, nDocs, cursor>>]_vars
    /\ [][(last'.op = "DocsClose" /\ ~docs[last'.it].opened)
            => /\ last'.native = {}
               /\ docs' = [docs EXCEPT ![last'.it].lock = 0]
               /\ UNCHANGED <<handle, container, db, nDocs, cursor>>]_vars

\* A second Db.Close() returned, the handle freed once by the first.
C2_Witness ==
    /\ closeReturned
    /\ last.op = "Close"
    /\ last.native = {}
    /\ handle.frees = 1

\* C3: on a Connection that is not open, PutFile, PutXml, Merge, Remove, Get,
\* Size, All and Query return errclosed, call nothing native and leave db.next,
\* db.docss, the handle, the container and the cursors as they were.
C3_ClosedConnection ==
    [][(last'.op \in GuardedOps /\ ~db.opened)
        => /\ ~last'.ok
           /\ last'.str = errclosed
           /\ last'.native = {}
           /\ db'.next = db.next
           /\ db'.docss = db.docss
           /\ UNCHANGED <<handle, container, docs, cursor>>]_vars

\* Query returned errclosed after Db.Close().
C3_Witness ==
    /\ closeReturned
    /\ last.op = "Query"
    /\ last.str = errclosed

\* The caller t holds the lock of Docs i and is in the body of a method.
InBody(t, i) == pc[t].it = i /\ pc[t].at \in {"body", "docsClose"}

\* C4: the methods of one Docs exclude each other (the caller in a body holds
\* docs.lock), no native cursor function is called on a cursor that was freed,
\* Docs.Close() leaves the Docs closed, and a Next() on a closed Docs returns
\* false, so that every Next() after a Close() does.
C4_CloseCancels ==
    /\ [](\A i \in Slots : \A t, u \in Callers :
            /\ InBody(t, i) => docs[i].lock = t
            /\ (InBody(t, i) /\ InBody(u, i)) => t = u)
    /\ [][(last'.op \in IterCalls /\ last'.native # {})
            => cursor[last'.it].alive = "live"]_vars
    /\ [][last'.op = "DocsClose" => ~docs'[last'.it].opened]_vars
    /\ ClosedStaysClosed
    /\ NextOnClosed

\* Docs.Close() returned having freed the cursor of an iteration that had
\* begun and was not exhausted.
C4_Witness ==
    /\ last.op = "DocsClose"
    /\ last.native = {"c_dbxml_docs_free"}
    /\ docs[last.it].started

\* C5: a Next() whose c_dbxml_docs_next returned 0 frees the cursor, clears
\* docs.opened, deletes docs.id from db.docss and returns false; the Docs stays
\* closed, and Next() on it returns false without a native call.
C5_ExhaustedCloses ==
    /\ [][(last'.op = "Next" /\ "c_dbxml_docs_next" \in last'.native /\ ~last'.ok)
            => /\ "c_dbxml_docs_free" \in last'.native
               /\ cursor[last'.it].alive = "live"
               /\ cursor'[last'.it].alive = "freed"
               /\ ~docs'[last'.it].opened
               /\ docs[last'.it].id \in DOMAIN db.docss
               /\ docs[last'.it].id \notin DOMAIN db'.docss]_vars
    /\ ClosedStaysClosed
    /\ NextOnClosed

\* Next() returned false because the cursor did not advance.
C5_Witness ==
    /\ last.op = "Next"
    /\ ~last.ok
    /\ "c_dbxml_docs_next" \in last.native

\* C6: a Query whose c_dbxml_get_query failed returns an error and a Docs that
\* is closed and stays so, puts nothing in db.docss, leaves db.next, and
\* leaves the Connection open with its handle live and its lock free.
C6_QueryFails ==
    /\ [][(last'.op = "Query" /\ ~last'.ok /\ db.opened)
            => /\ last'.str # ""
               /\ ~docs'[last'.it].opened
               /\ db'.docss = db.docss
               /\ db'.next = db.next
               /\ db'.opened
               /\ db'.lock = 0
               /\ handle'.alive = "live"]_vars
    /\ ClosedStaysClosed
    /\ NextOnClosed

\* Next() returned false on the Docs of a failed Query: its cursor was made
\* and the Docs never opened.
C6_Witness ==
    /\ last.op = "Next"
    /\ ~last.ok
    /\ last.native = {}
    /\ cursor[last.it].alive = "live"
    /\ ~docs[last.it].opened

\* The call was made on an open Connection.
OnOpen(call) == call.str # errclosed

\* C7: a PutXml or PutFile with replace false under a name that is taken
\* returns an error and leaves every document as it was: Get of the name and
\* Size give what they gave before.
C7_PutExisting ==
    (last.op \in Puts /\ OnOpen(last) /\ ~last.repl /\ last.before[last.name] # Absent)
        => /\ ~last.ok
           /\ last.str # ""
           /\ container = last.before
           /\ GetResult(container, handle, last.name)
                = GetResult(last.before, handle, last.name)
           /\ c_dbxml_size(container) = c_dbxml_size(last.before)

\* A PutXml of a well-formed body with replace false failed on a writable
\* container because its name was taken.
C7_Witness ==
    /\ last.op = "PutXml" /\ OnOpen(last) /\ ~last.repl
    /\ last.before[last.name] # Absent
    /\ last.data # last.before[last.name]
    /\ WellFormed(last.data)
    /\ ~handle.readOnly

\* C8 as claimed: after any PutXml or PutFile with replace true, Get of the
\* name returns the body that was put.
C8_Original ==
    (last.op \in Puts /\ OnOpen(last) /\ last.repl)
        => GetResult(container, handle, last.name) = [content |-> last.data, err |-> ""]

\* C8 amended: after a PutXml or PutFile with replace true that returned nil,
\* Get of the name returns the body that was put, whatever was there before.
C8_PutReplace ==
    (last.op \in Puts /\ OnOpen(last) /\ last.repl /\ last.ok)
        => GetResult(container, handle, last.name) = [content |-> last.data, err |-> ""]

\* A put with replace true succeeded over a document with another body.
C8_Witness ==
    /\ last.op \in Puts /\ OnOpen(last) /\ last.repl /\ last.ok
    /\ last.before[last.name] # Absent
    /\ last.before[last.name] # last.data

\* The j-th document of the source can be inserted: the destination is
\* writable and, without replace, holds nothing under its name.
Insertable(call, readOnly, j) ==
    ~readOnly /\ (call.repl \/ call.before[call.input[j].name] = Absent)

\* C9: Merge inserts the first k documents of the source, in cursor order,
\* where the k+1-th is the first whose insertion fails; it then returns an
\* error, the k+1-th is not inserted, no later document of the source is, and
\* the documents that are not in the source are as they were; if none fails it
\* returns nil, and the destination, if it was empty, has Size() equal to the
\* number of source documents.
C9_MergePrefix ==
    (last.op = "Merge" /\ OnOpen(last))
        => \E k \in 0..Len(last.input) :
            /\ \A j \in 1..k :
                /\ Insertable(last, handle.readOnly, j)
                /\ container[last.input[j].name] = last.input[j].data
            /\ \A j \in (k + 2)..Len(last.input) :
                container[last.input[j].name] = last.before[last.input[j].name]
            /\ \A n \in Names \ {last.input[j].name : j \in 1..Len(last.input)} :
                container[n] = last.before[n]
            /\ k < Len(last.input)
                => /\ ~Insertable(last, handle.readOnly, k + 1)
                   /\ container[last.input[k + 1].name]
                        \in {Absent, last.before[last.input[k + 1].name]}
                   /\ ~last.ok /\ last.str # ""
            /\ k = Len(last.input)
                => /\ last.ok
                   /\ Present(last.before) = {}
                        => c_dbxml_size(container) = Len(last.input)

\* A Merge failed at its second document after it had inserted the first.
C9_Witness ==
    /\ last.op = "Merge" /\ OnOpen(last) /\ ~last.ok
    /\ Len(last.input) = 2
    /\ last.before[last.input[1].name] = Absent
    /\ container[last.input[1].name] = last.input[1].data
    /\ last.before[last.input[2].name] # Absent
    /\ container[last.input[2].name] = last.before[last.input[2].name]

\* What C10 says of an Open but for the mode of the second pass.
OpenOutcome(call) ==
    LET a == call.attempts
    IN  /\ Len(a) \in 1..2
        /\ a[1].mode \in {"openReadWrite", "create"}
        /\ Len(a) = 2 => a[1].out # "ok"
        /\ call.ok <=> (\E j \in 1..Len(a) : a[j].out = "ok")
        /\ call.ok => (db.opened /\ handle.alive = "live" /\ handle.frees = 0)
        /\ ~call.ok
            => /\ Len(a) = 2 /\ a[2].out # "ok"
               /\ call.str # ""
               /\ ~db.opened
               /\ handle.alive = "freed" /\ handle.frees = 1

\* C10 as claimed: the second pass of Open is made in read-only mode.
C10_Original ==
    last.op = "Open"
        => /\ OpenOutcome(last)
           /\ Len(last.attempts) = 2 => last.attempts[2].mode = "openReadOnly"

\* C10 amended: Open makes one pass, read-write, and a second only if the
\* first failed; the second opens a container that exists read-only and
\* creates one that does not, as the first does.  Open returns an open
\* Connection and nil iff a pass succeeded; if both fail it returns an error
\* and a Connection that is not open, its handle freed exactly once.
C10_OpenAttempts ==
    last.op = "Open"
        => /\ OpenOutcome(last)
           /\ Len(last.attempts) = 2
                => /\ last.attempts[2].mode \in {"openReadOnly", "create"}
                   /\ handle.readOnly <=>
                        (last.ok /\ last.attempts[2].mode = "openReadOnly")
           /\ Len(last.attempts) = 1 => ~handle.readOnly

\* Open failed after two passes, the second read-only.
C10_Witness ==
    /\ last.op = "Open" /\ ~last.ok
    /\ Len(last.attempts) = 2
    /\ last.attempts[2].mode = "openReadOnly"
    /\ handle.frees = 1

\* db.docss holds the Docs i under its id.
InRegistry(i) == docs[i].id \in DOMAIN db.docss /\ db.docss[docs[i].id] = i

\* No method holds the lock of the Connection or that of the Docs i.
Quiescent(i) == db.lock = 0 /\ docs[i].lock = 0

\* C11: when no method holds db.lock or the lock of the Docs concerned, the
\* db.docss of an open Connection holds a Docs under its id iff
\* docs.opened, and every entry is a Docs under its own id; a Docs is
\* only opened by an All() or Query() that returns it with a nil error; once a
\* Db.Close() that found the Connection open has returned, db.docss is empty.
C11_Registry ==
    /\ [](\A i \in 1..nDocs :
            (db.opened /\ Quiescent(i)) => (InRegistry(i) <=> docs[i].opened))
    /\ []((db.opened /\ db.lock = 0)
            => \A id \in DOMAIN db.docss :
                /\ db.docss[id] \in 1..nDocs
                /\ docs[db.docss[id]].id = id)
    /\ [][\A i \in Slots : (docs'[i].opened /\ ~docs[i].opened)
            => (last'.op \in {"All", "Query"} /\ last'.ok /\ last'.it = i)]_vars
    /\ [](closeReturned => db.docss = EmptyMap)

\* Two Docs were made on a Connection that is open and idle: the first closed
\* itself and is no longer in db.docss, the second is open and is.
C11_Witness ==
    /\ db.opened /\ db.lock = 0 /\ nDocs = 2
    /\ Quiescent(1) /\ Quiescent(2)
    /\ cursor[1].alive = "freed" /\ ~docs[1].opened /\ ~InRegistry(1)
    /\ docs[2].opened /\ InRegistry(2)

\* C12 as claimed: a Db.Close() that runs while a Docs of the Connection closes
\* itself never calls Close() on an entry that was deleted between its test and
\* its lookup (a nil *Docs, on which docs.lock.Lock() panics), and no cursor is
\* freed twice.
C12_Original ==
    /\ \A t \in Callers : At(t, "Close", "lookup") => pc[t].id \in DOMAIN db.docss
    /\ \A i \in Slots : cursor[i].frees <= 1

\* C13 as claimed: db.docss is never accessed by two callers at once: no caller
\* is about to delete an entry in docs.close(), called by Docs.Close() or by a
\* Next() that finds the cursor exhausted, holding docs.lock only, while
\* another that holds db.lock is about to insert in All() or Query(), or to
\* read in Db.Close().
C13_Original ==
    \A t, u \in Callers :
        ~ /\ pc[t].op \in {"DocsClose", "Next"}
          /\ MapAccess(t) = "write"
          /\ pc[u].op \in {"All", "Query", "Close"}
          /\ MapAccess(u) # "none"

\* The methods C14 is about.
Closers == {"Close", "DocsClose", "Next", "Name", "Content"}

\* Caller t holds the lock of a Docs.
HoldsDocs(t) == \E i \in Slots : docs[i].lock = t

\* Locks are taken in the order db.lock, docs.lock, and only Db.Close takes
\* both: a caller that holds a docs.lock in a method of Docs holds no db.lock
\* and holds one docs.lock, and the caller that waits for a docs.lock in Db.Close
\* holds db.lock and no docs.lock.
LockOrder ==
    \A t \in Callers :
        /\ (HoldsDocs(t) /\ pc[t].op \in DocsOps)
            => (db.lock # t /\ \A i \in Slots : docs[i].lock = t => i = pc[t].it)
        /\ At(t, "Close", "docsLock") => (db.lock = t /\ ~HoldsDocs(t))
        /\ HoldsDocs(t) => (pc[t].op \in DocsOps \/ At(t, "Close", "docsClose"))

\* C14 as claimed: locks are taken in the order db.lock, docs.lock, no method of
\* Docs takes db.lock, and under fair scheduling, the native calls returning,
\* every Db.Close(), Docs.Close(), Next(), Name() and Content() that started
\* returns.
C14_Original ==
    /\ []LockOrder
    /\ \A t \in 1..NCallers : (pc[t].op \in Closers) ~> (pc[t] = Idle)

\* What holds of C14: the lock order, and every such call returns unless the
\* process dies of the panic of Db.Close or of the runtime's fatal error on
\* db.docss.
C14_ReturnsOrCrashes ==
    /\ []LockOrder
    /\ \A t \in 1..NCallers : (pc[t].op \in Closers) ~> (pc[t] = Idle \/ crashed)

\* Db.Close() waits for the lock of a Docs that another caller holds.
C14_Witness ==
    \E t \in Callers :
        /\ At(t, "Close", "docsLock")
        /\ docs[pc[t].it].lock \notin {0, t}

\* Caller t is in Db.Close() on a Connection it found open: in the loop or past it.
Closing(t) == pc[t].op = "Close" /\ pc[t].at # "body"

\* C15: Db.Close() calls c_dbxml_free when every Docs of the Connection is
\* closed: at that step the caller holds db.lock, no Docs has docs.opened, no
\* caller is in a Next(), Name() or Content() that will call a native cursor
\* function, and no other caller is in a method of Db; and from the loop to
\* the call no Docs is made or opened.
C15_FreeAfterClose ==
    /\ [](\A t \in Callers : At(t, "Close", "free")
            => /\ db.lock = t
               /\ \A i \in 1..nDocs : ~docs[i].opened
               /\ \A u \in Callers : pc[u].op \in IterCalls => ~docs[pc[u].it].opened
               /\ \A u \in Callers \ {t} : pc[u].op \notin DbOps)
    /\ [][(last'.op = "Close" /\ "c_dbxml_free" \in last'.native)
            => /\ \E t \in Callers : At(t, "Close", "free")
               /\ \A i \in 1..nDocs : ~docs'[i].opened]_vars
    /\ [][(\E t \in Callers : Closing(t))
            => /\ nDocs' = nDocs
               /\ db'.next = db.next
               /\ \A i \in Slots : docs'[i].opened => docs[i].opened]_vars

\* Db.Close() is about to call c_dbxml_free after it closed a Docs whose
\* iteration had begun, while another caller is in a Next() on that Docs.
C15_Witness ==
    \E t, u \in Callers :
        /\ At(t, "Close", "free")
        /\ At(u, "Next", "body")
        /\ docs[pc[u].it].started
        /\ cursor[pc[u].it].alive = "freed"

\* C16 as claimed: every cursor that c_dbxml_get_all or c_dbxml_get_query
\* allocated is freed exactly once: none twice, and once a Db.Close() that
\* found the Connection open has returned none is left unfreed, that of a
\* Query() that failed included.
C16_Original ==
    /\ \A i \in Slots : cursor[i].frees <= 1
    /\ closeReturned => \A i \in Slots : cursor[i].alive # "live"

\* C17 as claimed: no failure of the native library leaves a method as an
\* exception: the method returns, with an error or a false, zero or empty
\* result, and the process is never ended by one.  With one caller and no
\* iterator nothing else can end it.
C17_Original == ~crashed

\* The native functions that take the container handle, c_dbxml_open apart,
\* and those that take a cursor.
ContainerCalls ==
    {"c_dbxml_free", "c_dbxml_error", "c_dbxml_errstring", "c_dbxml_put_file",
     "c_dbxml_put_xml", "c_dbxml_merge", "c_dbxml_remove", "c_dbxml_get", "c_dbxml_size",
     "c_dbxml_get_all", "c_dbxml_get_query"}
CursorCalls ==
    {"c_dbxml_docs_next", "c_dbxml_docs_name", "c_dbxml_docs_content", "c_dbxml_docs_free"}

\* C18: the native calls on one handle are serialized: at most one caller is in
\* a method of Db, and it holds db.lock; at most one is in a method of a
\* given Docs, and it holds docs.lock; and no native function is called on a
\* container handle or on a cursor that was freed, nor is a freed one changed.
C18_Serialized ==
    /\ [](\A t, u \in Callers :
            /\ pc[t].op \in DbOps => db.lock = t
            /\ (pc[t].op \in DbOps /\ pc[u].op \in DbOps) => t = u)
    /\ [](\A i \in Slots : \A t, u \in Callers :
            /\ (pc[t].op \in DocsOps /\ pc[t].it = i) => docs[i].lock = t
            /\ At(t, "Close", "docsClose") /\ pc[t].it = i => docs[i].lock = t
            /\ (InBody(t, i) /\ InBody(u, i)) => t = u)
    /\ [][(last'.native \cap ContainerCalls # {} /\ last'.op # "Open")
            => handle.alive = "live"]_vars
    /\ [][handle' # handle => handle.alive # "freed"]_vars
    /\ [][last'.native \cap CursorCalls # {} => cursor[last'.it].alive = "live"]_vars
    /\ [][\A i \in Slots : cursor'[i] # cursor[i] => cursor[i].alive # "freed"]_vars

\* One caller holds db.lock in PutXml while another holds the lock of an open
\* Docs in Content: a native call on the handle and one on the cursor at once.
C18_Witness ==
    \E t, u \in Callers :
        /\ At(t, "PutXml", "body") /\ db.opened
        /\ At(u, "Content", "body")
        /\ docs[pc[u].it].opened /\ docs[pc[u].it].started

\* C19 as claimed: whenever the container opens and addAlias fails, Open
\* returns an error and a Connection that is not open.
C19_Original ==
    (last.op = "Open" /\ \E j \in 1..Len(last.attempts) : last.attempts[j].out = "noalias")
        => (~last.ok /\ last.str # "" /\ ~db.opened)

\* C20 as claimed: a PutXml or PutFile that returns an error leaves the stored
\* documents as they were, whatever the container held, the name, the body and
\* replace are.
C20_Original ==
    (last.op \in Puts /\ OnOpen(last) /\ ~last.ok) => container = last.before

====
